---- MODULE Spec2Model ----
(***************************************************************************)
(* RAGE: the setup wizard (src/src/setup.ts), the JSON file writer         *)
(* (writeJsonFiles) and, from the design document, the scope resolver, the *)
(* sync cycle and the Push After Interval scheduler.                       *)
(*                                                                         *)
(* A string is a sequence of one-character strings; a path is a sequence   *)
(* of segments, each a string; the empty path is the directory the         *)
(* relative paths start from.                                              *)
(***************************************************************************)
EXTENDS Integers, Sequences, FiniteSets, TLC

VARIABLES
  run,        \* the wizard: per run, its position, answers, output and files
  fs,         \* the writer: the filesystem, [dirs, files]
  call,       \* the writer: the last writeJsonFiles call and its result
  last,       \* the writer: per file path, the most recent call that aimed at it
  calls,      \* the writer: number of calls made
  wr,         \* the writer, step by step: the position inside writeFileSync
  seen,       \* a concurrent reader: what its last read of the file returned
  cyc,        \* one sync cycle: its position, targets, outcomes
  sched       \* the scheduler: its state, cycles in progress, timer

vars == <<run, fs, call, last, calls, wr, seen, cyc, sched>>

(***************************************************************************)
(* Strings                                                                 *)
(***************************************************************************)
Digits == {"0", "1", "2", "3", "4", "5", "6", "7", "8", "9"}

DigitVal(c) ==
  CASE c = "0" -> 0 [] c = "1" -> 1 [] c = "2" -> 2 [] c = "3" -> 3
    [] c = "4" -> 4 [] c = "5" -> 5 [] c = "6" -> 6 [] c = "7" -> 7
    [] c = "8" -> 8 [] c = "9" -> 9

DigitChar(n) ==
  CASE n = 0 -> "0" [] n = 1 -> "1" [] n = 2 -> "2" [] n = 3 -> "3"
    [] n = 4 -> "4" [] n = 5 -> "5" [] n = 6 -> "6" [] n = 7 -> "7"
    [] n = 8 -> "8" [] n = 9 -> "9"

IsSpace(c) == c = " "

RECURSIVE TrimStart(_)
TrimStart(s) ==
  IF s # <<>> /\ IsSpace(Head(s)) THEN TrimStart(Tail(s)) ELSE s

RECURSIVE TrimEnd(_)
TrimEnd(s) ==
  IF s # <<>> /\ IsSpace(s[Len(s)]) THEN TrimEnd(SubSeq(s, 1, Len(s) - 1)) ELSE s

\* String.prototype.trim
Trim(s) == TrimEnd(TrimStart(s))

\* the index of the first c in s, 0 when there is none
RECURSIVE IndexFrom(_, _, _)
IndexFrom(s, c, i) ==
  IF i > Len(s) THEN 0 ELSE IF s[i] = c THEN i ELSE IndexFrom(s, c, i + 1)

IndexOf(s, c) == IndexFrom(s, c, 1)

\* String.prototype.split with a one-character separator: "" splits to [""]
RECURSIVE Split(_, _)
Split(s, sep) ==
  LET i == IndexOf(s, sep) IN
  IF i = 0 THEN <<s>>
  ELSE <<SubSeq(s, 1, i - 1)>> \o Split(SubSeq(s, i + 1, Len(s)), sep)

\* String.prototype.endsWith
EndsWith(s, suffix) ==
  /\ Len(s) >= Len(suffix)
  /\ SubSeq(s, Len(s) - Len(suffix) + 1, Len(s)) = suffix

AllDigits(s) == \A i \in 1..Len(s) : s[i] \in Digits

AllZero(s) == \A i \in 1..Len(s) : s[i] = "0"

RECURSIVE DigitsValue(_)
DigitsValue(s) ==
  IF s = <<>> THEN 0 ELSE 10 * DigitsValue(SubSeq(s, 1, Len(s) - 1)) + DigitVal(s[Len(s)])

RECURSIVE NatDigits(_)
NatDigits(n) ==
  IF n < 10 THEN <<DigitChar(n)>> ELSE NatDigits(n \div 10) \o <<DigitChar(n % 10)>>

RECURSIVE StripZeros(_)
StripZeros(s) ==
  IF s # <<>> /\ s[Len(s)] = "0" THEN StripZeros(SubSeq(s, 1, Len(s) - 1)) ELSE s

(***************************************************************************)
(* Numbers: Number(string) for decimal literals. A number is NaN or a sign,*)
(* an integer part and the digits after the point.                         *)
(***************************************************************************)
NaN == [nan |-> TRUE, neg |-> FALSE, int |-> 0, frac |-> <<>>]

Num(n) == [nan |-> FALSE, neg |-> FALSE, int |-> n, frac |-> <<>>]

\* Number(s): whitespace is trimmed, "" is 0, then [-]digits[.digits] with
\* at least one digit; anything else is NaN
NumberOf(s) ==
  LET t    == Trim(s)
      neg  == t # <<>> /\ Head(t) = "-"
      body == IF neg THEN Tail(t) ELSE t
      dot  == IndexOf(body, ".")
      ip   == IF dot = 0 THEN body ELSE SubSeq(body, 1, dot - 1)
      fp   == IF dot = 0 THEN <<>> ELSE SubSeq(body, dot + 1, Len(body))
  IN  IF t = <<>> THEN Num(0)
      ELSE IF AllDigits(ip) /\ AllDigits(fp) /\ Len(ip) + Len(fp) > 0
        THEN [nan |-> FALSE, neg |-> neg, int |-> DigitsValue(ip), frac |-> StripZeros(fp)]
        ELSE NaN

\* !n : NaN, 0 and -0 are falsy
Falsy(n) == n.nan \/ (n.int = 0 /\ AllZero(n.frac))

IsInteger(n) == ~n.nan /\ AllZero(n.frac)

\* n < k for a number n that is not NaN and an integer k > 0
LessThan(n, k) == n.neg \/ n.int < k

\* a number as JSON.stringify and String print it
NumberText(n) ==
  (IF n.neg THEN <<"-">> ELSE <<>>) \o NatDigits(n.int)
    \o (IF AllZero(n.frac) THEN <<>> ELSE <<".">> \o n.frac)

(***************************************************************************)
(* Paths: path.join                                                        *)
(***************************************************************************)
RECURSIVE DropDots(_)
DropDots(segs) ==
  IF segs = <<>> THEN <<>>
  ELSE IF Head(segs) = <<>> \/ Head(segs) = <<".">> THEN DropDots(Tail(segs))
  ELSE <<Head(segs)>> \o DropDots(Tail(segs))

\* the segments of a path string: empty and "." segments are dropped
PathOf(s) == DropDots(Split(s, "/"))

\* path.join(a, b) of a path and a path string
PathJoin(p, s) == p \o PathOf(s)

Parent(p) == SubSeq(p, 1, Len(p) - 1)

(***************************************************************************)
(* The setup wizard: prompt, createFiles, start (src/src/setup.ts)         *)
(***************************************************************************)
\* a prompt that rejects: the error thrown, by its code
ThrowExit == <<"ExitPromptError">>
ThrowOther == <<"Error">>
Throws == {ThrowExit, ThrowOther}

IsThrow(a) == a \in Throws

NoDefault == <<"no default">>
NotAsked == <<"not asked">>
Undefined == <<"undefined">>
UndefinedList == <<Undefined>>

\* input({message, default}): what was typed, the default for an empty line
Input(typed, default) ==
  IF typed = <<>> /\ default # NoDefault THEN default ELSE typed

\* select({choices}): only a choice that is not disabled can be picked
Selectable(choices) ==
  {choices[i].value : i \in {j \in 1..Len(choices) : ~choices[j].disabled}}

Dot == <<".">>
IndexJs == <<"i", "n", "d", "e", "x", ".", "j", "s">>
DotJs == <<".", "j", "s">>
CommonJs == <<"c", "o", "m", "m", "o", "n", "j", "s">>
ModuleEsm == <<"m", "o", "d", "u", "l", "e">>
PAI == <<"P", "A", "I">>
POU == <<"P", "O", "U">>
NI == <<"N", "I">>
MongoDB == <<"M", "o", "n", "g", "o", "D", "B">>
DefaultInterval == <<"6", "0", "0", "0", "0", "0">>
MinInterval == 5000

ModuleTypeChoices ==
  <<[value |-> CommonJs, disabled |-> FALSE], [value |-> ModuleEsm, disabled |-> FALSE]>>

MethodChoices ==
  <<[value |-> PAI, disabled |-> FALSE], [value |-> POU, disabled |-> TRUE],
    [value |-> NI, disabled |-> TRUE]>>

DatabaseTypeChoices == <<[value |-> MongoDB, disabled |-> FALSE]>>

\* what the user may type at each question
ProjectNameInputs == {<<>>, <<"a">>} \cup Throws
DirPathInputs == {<<>>, <<"d">>, <<"d", "/", "e">>} \cup Throws
MainFileInputs == {<<>>, <<"m", ".", "j", "s">>, <<"m", ".", "t", "s">>} \cup Throws
ModuleTypeInputs == Selectable(ModuleTypeChoices) \cup Throws
MethodInputs == Selectable(MethodChoices) \cup Throws
IntervalInputs ==
  {<<>>, <<"4", "9", "9", "9">>, <<"5", "0", "0", "0">>, <<"5", "0", "0", "0", ".", "5">>,
   <<"0">>, <<" ">>, <<"k">>, <<"-", "1">>} \cup Throws
DatabaseTypeInputs == Selectable(DatabaseTypeChoices) \cup Throws
SecretInputs == {<<>>, <<"x">>, <<"y">>} \cup Throws
DbsInputs == {<<>>, <<"s">>, <<"s", ",", " ", "l">>} \cup Throws
ExcludeInputs == {<<>>, <<"s", "/", "u">>, <<"l", "/", "e", " ", ",", "s", "/", "u">>} \cup Throws
OutDirInputs == {<<>>, <<"o">>} \cup Throws

\* lines 29-38
InitialReturnValues ==
  [projectName |-> <<>>, dirPath |-> Dot, mainFile |-> IndexJs, moduleType |-> CommonJs,
   method |-> PAI, interval |-> Num(600000), databaseType |-> MongoDB,
   databaseSecret |-> Undefined, mongodbDatabasedbs |-> UndefinedList,
   mongodbDatabaseExcludeCollections |-> UndefinedList, outDir |-> Dot]

NothingTyped ==
  [projectName |-> NotAsked, dirPath |-> NotAsked, mainFile |-> NotAsked,
   moduleType |-> NotAsked, method |-> NotAsked, interval |-> NotAsked,
   databaseType |-> NotAsked, databaseSecret |-> NotAsked, dbs |-> NotAsked,
   excludeCollections |-> NotAsked, outDir |-> NotAsked]

\* console.log(message); process.exit(1)
ExitWith(st, message) ==
  [st EXCEPT !.console = Append(@, message), !.exitCode = 1, !.pc = "exit"]

\* the catch block of prompt, lines 232-240
CatchPrompt(st, error) ==
  IF error = ThrowExit
    THEN ExitWith(st, "Unexpected error occured!")
    ELSE ExitWith(st, "Terminating process...")

\* lines 41-46, 224-231
AnswerProjectName(st, a) ==
  LET s0 == [st EXCEPT !.typed.projectName = a]
      projectName == Input(a, NoDefault)
  IN  IF IsThrow(a) THEN CatchPrompt(s0, a)
      ELSE IF projectName # <<>>
        THEN [s0 EXCEPT !.rv.projectName = projectName, !.pc = "dirPath"]
        ELSE ExitWith(s0, "Please enter a valid name for the application/project and try again!")

\* lines 47-53, 216-223
AnswerDirPath(st, a) ==
  LET s0 == [st EXCEPT !.typed.dirPath = a]
      dirPath == Input(a, Dot)
  IN  IF IsThrow(a) THEN CatchPrompt(s0, a)
      ELSE IF dirPath # <<>>
        THEN [s0 EXCEPT !.rv.dirPath = dirPath, !.pc = "mainFile"]
        ELSE ExitWith(s0, "Please enter the working directory properly and try again!")

\* lines 55-61, 205-215
AnswerMainFile(st, a) ==
  LET s0 == [st EXCEPT !.typed.mainFile = a]
      mainFile == Input(a, IndexJs)
  IN  IF IsThrow(a) THEN CatchPrompt(s0, a)
      ELSE IF mainFile # <<>> /\ EndsWith(mainFile, DotJs)
        THEN [s0 EXCEPT !.rv.mainFile = mainFile, !.pc = "moduleType"]
        ELSE ExitWith(s0, "Please enter a valid file name with .js extension and try again!")

\* lines 63-77
AnswerModuleType(st, a) ==
  LET s0 == [st EXCEPT !.typed.moduleType = a]
  IN  IF IsThrow(a) THEN CatchPrompt(s0, a)
      ELSE [s0 EXCEPT !.rv.moduleType = a, !.pc = "method"]

\* lines 80-108
AnswerMethod(st, a) ==
  LET s0 == [st EXCEPT !.typed.method = a]
  IN  IF IsThrow(a) THEN CatchPrompt(s0, a)
      ELSE [s0 EXCEPT !.rv.method = a,
                      !.pc = IF a = PAI THEN "interval" ELSE "databaseType"]

\* lines 109-132
AnswerInterval(st, a) ==
  LET s0 == [st EXCEPT !.typed.interval = a]
      interval == NumberOf(Input(a, DefaultInterval))
  IN  IF IsThrow(a) THEN CatchPrompt(s0, a)
      ELSE IF Falsy(interval)
        THEN ExitWith(s0, "Please enter a valid value and try again!")
      ELSE IF LessThan(interval, MinInterval)
        THEN ExitWith(s0, "The minimum interval should be above 5000 milliseconds!")
      ELSE [s0 EXCEPT !.rv.interval = interval, !.pc = "databaseType"]

\* lines 134-146
AnswerDatabaseType(st, a) ==
  LET s0 == [st EXCEPT !.typed.databaseType = a]
  IN  IF IsThrow(a) THEN CatchPrompt(s0, a)
      ELSE [s0 EXCEPT !.rv.databaseType = a,
                      !.pc = IF a = MongoDB THEN "databaseSecret" ELSE "outDir"]

\* lines 147-160 without the process.exit(1) of line 159: the wizard goes on
AnswerDatabaseSecretNoExit(st, a) ==
  LET s0 == [st EXCEPT !.typed.databaseSecret = a]
      databaseSecret == Input(a, NoDefault)
  IN  IF IsThrow(a) THEN CatchPrompt(s0, a)
      ELSE IF databaseSecret # <<>>
        THEN [s0 EXCEPT !.rv.databaseSecret = databaseSecret, !.pc = "dbs"]
        ELSE [s0 EXCEPT !.pc = "dbs",
                        !.console = Append(@, "Please enter the database secret key (MongoDB URI) properly and try again!")]

\* lines 147-160
AnswerDatabaseSecret(st, a) ==
  LET s0 == [st EXCEPT !.typed.databaseSecret = a]
      databaseSecret == Input(a, NoDefault)
  IN  IF IsThrow(a) THEN CatchPrompt(s0, a)
      ELSE IF databaseSecret # <<>>
        THEN [s0 EXCEPT !.rv.databaseSecret = databaseSecret, !.pc = "dbs"]
        ELSE ExitWith(s0, "Please enter the database secret key (MongoDB URI) properly and try again!")

\* s.split(",").map((e) => e.trim())
ParseList(s) ==
  LET parts == Split(s, ",") IN [i \in 1..Len(parts) |-> Trim(parts[i])]

\* lines 162-170
AnswerDbs(st, a) ==
  LET s0 == [st EXCEPT !.typed.dbs = a]
  IN  IF IsThrow(a) THEN CatchPrompt(s0, a)
      ELSE [s0 EXCEPT !.rv.mongodbDatabasedbs = ParseList(Input(a, NoDefault)),
                      !.pc = "excludeCollections"]

\* lines 172-185
AnswerExcludeCollections(st, a) ==
  LET s0 == [st EXCEPT !.typed.excludeCollections = a]
  IN  IF IsThrow(a) THEN CatchPrompt(s0, a)
      ELSE [s0 EXCEPT !.rv.mongodbDatabaseExcludeCollections = ParseList(Input(a, NoDefault)),
                      !.pc = "outDir"]

\* lines 187-204: a valid answer makes prompt return, and start goes on to createFiles
AnswerOutDir(st, a) ==
  LET s0 == [st EXCEPT !.typed.outDir = a]
      outDir == Input(a, Dot)
  IN  IF IsThrow(a) THEN CatchPrompt(s0, a)
      ELSE IF outDir # <<>>
        THEN [s0 EXCEPT !.rv.outDir = outDir, !.pc = "createFiles"]
        ELSE ExitWith(s0, "Please enter the directory path properly and try again!")

(***************************************************************************)
(* The filesystem: directories and files by path. The empty path, the      *)
(* directory relative paths start from, always exists.                     *)
(***************************************************************************)
IsDir(f, p) == p \in f.dirs

IsFile(f, p) == \E e \in f.files : e.path = p

\* fs.existsSync
Exists(f, p) == IsDir(f, p) \/ IsFile(f, p)

Content(f, p) == (CHOOSE e \in f.files : e.path = p).content

\* fs.mkdirSync(p), not recursive: the parent has to be a directory, p must not exist
MkdirOk(f, p) == ~Exists(f, p) /\ IsDir(f, Parent(p))

Mkdir(f, p) == [f EXCEPT !.dirs = @ \cup {p}]

\* fs.writeFileSync(p, data): the parent has to be a directory, p no directory
WriteOk(f, p) == p # <<>> /\ IsDir(f, Parent(p)) /\ ~IsDir(f, p)

\* flag "a" in place of "w": the data goes after what the file holds
WriteFileAppend(f, p, data) ==
  [f EXCEPT !.files = {e \in @ : e.path # p}
                        \cup {[path |-> p,
                               content |-> (IF \E e \in f.files : e.path = p
                                              THEN (CHOOSE e \in f.files : e.path = p).content
                                              ELSE <<>>) \o data]}]

\* flag "w": the file is created or its content replaced
WriteFile(f, p, data) ==
  [f EXCEPT !.files = {e \in @ : e.path # p} \cup {[path |-> p, content |-> data]}]

(***************************************************************************)
(* createFiles (src/src/setup.ts, lines 247-309)                           *)
(***************************************************************************)
JsonString(s) == [t |-> "string", v |-> <<s>>]
JsonNumber(n) == [t |-> "number", v |-> <<NumberText(n)>>]
JsonArray(a) == [t |-> "array", v |-> a]

\* JSON.stringify(rageConfigFileData, null, 2): the members in order, by key path
RageConfigJson(cfg) ==
  << <<"method", JsonString(cfg.method)>>,
     <<"methodSpecificSettings.interval", JsonNumber(cfg.interval)>>,
     <<"database.type", JsonString(cfg.databaseType)>>,
     <<"database.secretKey", JsonString(cfg.databaseSecret)>>,
     <<"database.dbSpecificSettings.dbs", JsonArray(cfg.mongodbDatabasedbs)>>,
     <<"database.dbSpecificSettings.excludeCollections",
       JsonArray(cfg.mongodbDatabaseExcludeCollections)>>,
     <<"outDir", JsonString(cfg.outDir)>> >>

\* JSON.stringify(packageJsonData, null, 2)
PackageJson(cfg) ==
  << <<"name", JsonString(cfg.projectName)>>,
     <<"version", JsonString(<<"1", ".", "0", ".", "0">>)>>,
     <<"description", JsonString(<<>>)>>,
     <<"main", JsonString(cfg.mainFile)>>,
     <<"scripts.start", JsonString(<<"n", "o", "d", "e", " ">> \o cfg.mainFile)>>,
     <<"keywords", JsonArray(<<>>)>>,
     <<"author", JsonString(<<>>)>>,
     <<"license", JsonString(<<"I", "S", "C">>)>> >>

RageConfigFile == <<"/", "r", "a", "g", "e", ".", "c", "o", "n", "f", "i", "g", ".", "j", "s", "o", "n">>
PackageFile == <<"/", "p", "a", "c", "k", "a", "g", "e", ".", "j", "s", "o", "n">>

\* an exception no one catches: start's promise rejects, the process ends with status 1
Unhandled(st) == [st EXCEPT !.exitCode = 1, !.pc = "crashed"]

\* fs.writeFileSync(path, data, "utf-8"); console.log(message)
WriteAndLog(st, p, data, message) ==
  IF st.pc = "crashed" THEN st
  ELSE IF WriteOk(st.wfs, p)
    THEN [st EXCEPT !.wfs = WriteFile(@, p, data), !.console = Append(@, message)]
    ELSE Unhandled(st)

\* lines 247-298, given the two documents to write
CreateFilesWith(st, rageConfigFileData, packageJsonData) ==
  LET cfg == st.rv
      dir == PathJoin(<<>>, cfg.dirPath)
      s1  == IF Exists(st.wfs, dir) THEN st
             ELSE IF MkdirOk(st.wfs, dir)
               THEN [st EXCEPT !.wfs = Mkdir(@, dir),
                               !.console = Append(@, "Directory created")]
               ELSE Unhandled(st)
      s2  == WriteAndLog(s1, PathJoin(<<>>, cfg.dirPath \o RageConfigFile),
                         rageConfigFileData, "Created rage.config.json")
      s3  == WriteAndLog(s2, PathJoin(<<>>, cfg.dirPath \o PackageFile),
                         packageJsonData, "Created package.json")
  IN  IF s3.pc = "crashed" THEN s3 ELSE [s3 EXCEPT !.pc = "done", !.exitCode = 0]

\* a createFiles that copies the secret into package.json
createFilesLeaky(st) ==
  CreateFilesWith(st, RageConfigJson(st.rv),
                  PackageJson([st.rv EXCEPT !.projectName = st.rv.databaseSecret]))

createFiles(st) == CreateFilesWith(st, RageConfigJson(st.rv), PackageJson(st.rv))

(***************************************************************************)
(* The wizard as a state machine. Two runs are given the same answers to   *)
(* every question but the database secret, in the same filesystem state.   *)
(***************************************************************************)
Runs == {1, 2}

DirD == <<"d">>
NameE == <<"e">>

WizardFsInits ==
  {[dirs |-> ds, files |-> {}] : ds \in {{<<>>}, {<<>>, <<DirD>>}, {<<>>, <<DirD>>, <<DirD, NameE>>}}}

\* exitCode is the status the process ended with, read once pc is "exit", "crashed" or
\* "done"; disk0 is the filesystem the run started in
NewRun(w) ==
  [pc |-> "projectName", rv |-> InitialReturnValues, typed |-> NothingTyped,
   console |-> <<>>, exitCode |-> 0, wfs |-> w, disk0 |-> w]

NoRun ==
  [pc |-> "none", rv |-> InitialReturnValues, typed |-> NothingTyped,
   console |-> <<>>, exitCode |-> 0, wfs |-> [dirs |-> {<<>>}, files |-> {}],
   disk0 |-> [dirs |-> {<<>>}, files |-> {}]]

Same(a) == [r \in Runs |-> a]

\* every run that waits at question q takes its answer
Answered(q, ans, Answer(_, _)) ==
  [r \in Runs |-> IF run[r].pc = q THEN Answer(run[r], ans[r]) ELSE run[r]]

Waiting(q) == \E r \in Runs : run[r].pc = q

AskProjectName ==
  /\ Waiting("projectName")
  /\ \E a \in ProjectNameInputs : run' = Answered("projectName", Same(a), AnswerProjectName)
  /\ UNCHANGED <<fs, call, last, calls, wr, seen, cyc, sched>>

AskDirPath ==
  /\ Waiting("dirPath")
  /\ \E a \in DirPathInputs : run' = Answered("dirPath", Same(a), AnswerDirPath)
  /\ UNCHANGED <<fs, call, last, calls, wr, seen, cyc, sched>>

AskMainFile ==
  /\ Waiting("mainFile")
  /\ \E a \in MainFileInputs : run' = Answered("mainFile", Same(a), AnswerMainFile)
  /\ UNCHANGED <<fs, call, last, calls, wr, seen, cyc, sched>>

AskModuleType ==
  /\ Waiting("moduleType")
  /\ \E a \in ModuleTypeInputs : run' = Answered("moduleType", Same(a), AnswerModuleType)
  /\ UNCHANGED <<fs, call, last, calls, wr, seen, cyc, sched>>

AskMethod ==
  /\ Waiting("method")
  /\ \E a \in MethodInputs : run' = Answered("method", Same(a), AnswerMethod)
  /\ UNCHANGED <<fs, call, last, calls, wr, seen, cyc, sched>>

AskInterval ==
  /\ Waiting("interval")
  /\ \E a \in IntervalInputs : run' = Answered("interval", Same(a), AnswerInterval)
  /\ UNCHANGED <<fs, call, last, calls, wr, seen, cyc, sched>>

AskDatabaseType ==
  /\ Waiting("databaseType")
  /\ \E a \in DatabaseTypeInputs : run' = Answered("databaseType", Same(a), AnswerDatabaseType)
  /\ UNCHANGED <<fs, call, last, calls, wr, seen, cyc, sched>>

\* the one question the two runs may answer differently
AskDatabaseSecret ==
  /\ Waiting("databaseSecret")
  /\ \E a1, a2 \in SecretInputs : run' = Answered("databaseSecret", <<a1, a2>>, AnswerDatabaseSecret)
  /\ UNCHANGED <<fs, call, last, calls, wr, seen, cyc, sched>>

AskDbs ==
  /\ Waiting("dbs")
  /\ \E a \in DbsInputs : run' = Answered("dbs", Same(a), AnswerDbs)
  /\ UNCHANGED <<fs, call, last, calls, wr, seen, cyc, sched>>

AskExcludeCollections ==
  /\ Waiting("excludeCollections")
  /\ \E a \in ExcludeInputs : run' = Answered("excludeCollections", Same(a), AnswerExcludeCollections)
  /\ UNCHANGED <<fs, call, last, calls, wr, seen, cyc, sched>>

AskOutDir ==
  /\ Waiting("outDir")
  /\ \E a \in OutDirInputs : run' = Answered("outDir", Same(a), AnswerOutDir)
  /\ UNCHANGED <<fs, call, last, calls, wr, seen, cyc, sched>>

\* start, lines 314-318: createFiles runs once prompt has returned
CreateFiles ==
  /\ Waiting("createFiles")
  /\ run' = [r \in Runs |-> IF run[r].pc = "createFiles" THEN createFiles(run[r]) ELSE run[r]]
  /\ UNCHANGED <<fs, call, last, calls, wr, seen, cyc, sched>>

WizardIdle == run = [r \in Runs |-> NoRun]

WizardInit == \E w \in WizardFsInits : run = [r \in Runs |-> NewRun(w)]

WizardNext ==
  \/ AskProjectName
  \/ AskDirPath
  \/ AskMainFile
  \/ AskModuleType
  \/ AskMethod
  \/ AskInterval
  \/ AskDatabaseType
  \/ AskDatabaseSecret
  \/ AskDbs
  \/ AskExcludeCollections
  \/ AskOutDir
  \/ CreateFiles

(***************************************************************************)
(* writeJsonFiles (src/unnamed/part_001)                                   *)
(***************************************************************************)
\* a payload: an array of strings, or a value with a circular reference
Circular == [circular |-> TRUE, docs |-> <<>>]
Array(docs) == [circular |-> FALSE, docs |-> docs]

Quoted(s) == <<"\"">> \o s \o <<"\"">>

RECURSIVE Elements(_)
Elements(docs) ==
  IF docs = <<>> THEN <<>>
  ELSE <<"\n", " ", " ">> \o Quoted(Head(docs))
         \o (IF Len(docs) > 1 THEN <<",">> ELSE <<"\n">>) \o Elements(Tail(docs))

\* JSON.stringify(dataToWrite, null, 2) of an array of strings: the text
Stringify(data) ==
  IF data.docs = <<>> THEN <<"[", "]">> ELSE <<"[">> \o Elements(data.docs) \o <<"]">>

DotJson == <<".", "j", "s", "o", "n">>

\* `${path}.json`: the extension goes on the path's last segment
WithExtension(p, ext) ==
  IF p = <<>> THEN <<Dot \o ext>> ELSE [p EXCEPT ![Len(p)] = @ \o ext]

\* line 16
FolderPath(args) == PathJoin(PathJoin(<<>>, args.dirPath), args.databaseName)

\* the file name left out of the join: one file per database
FinalFilePathPerDatabase(args) == WithExtension(FolderPath(args), DotJson)

\* line 17
FinalFilePath(args) ==
  WithExtension(PathJoin(FolderPath(args), args.fileName), DotJson)

Prefix(data, n) == SubSeq(data, 1, IF n < Len(data) THEN n ELSE Len(data))

\* what the environment does to this call: nothing, mkdirSync denied, the file's
\* open denied, or the disk full once `written` characters are in the file
NoFault == [kind |-> "none", written |-> 0]

NoError == "none"

\* line 18: JSON.stringify throws on a circular structure
StringifyError(args) == IF args.dataToWrite.circular THEN "TypeError" ELSE NoError

\* lines 19-20
MkdirNeeded(f, args) == ~Exists(f, FolderPath(args))

MkdirError(f, args, fault) ==
  IF ~MkdirNeeded(f, args) THEN NoError
  ELSE IF ~IsDir(f, Parent(FolderPath(args))) THEN "ENOENT"
  ELSE IF fault.kind = "mkdirDenied" THEN "EACCES"
  ELSE NoError

\* line 26
WriteError(f, args, fault) ==
  IF ~IsDir(f, Parent(FinalFilePath(args))) THEN "ENOTDIR"
  ELSE IF IsDir(f, FinalFilePath(args)) THEN "EISDIR"
  ELSE IF fault.kind = "openDenied" THEN "EACCES"
  ELSE IF fault.kind = "diskFull" THEN "ENOSPC"
  ELSE NoError

Thrown(f, logged, error) == [fs |-> f, logged |-> logged, error |-> error, path |-> <<>>]

\* line 26 and 28, in the filesystem f1 and with the log l1 that lines 16-24 left:
\* the file written and the path returned, or the error thrown; a full disk leaves
\* the file with what was written until then
WriteAndReturn(f1, l1, args, fault) ==
  IF WriteError(f1, args, fault) = NoError
    THEN [fs |-> WriteFile(f1, FinalFilePath(args), Stringify(args.dataToWrite)),
          logged |-> l1, error |-> NoError, path |-> FinalFilePath(args)]
  ELSE IF WriteError(f1, args, fault) = "ENOSPC"
    THEN Thrown(WriteFile(f1, FinalFilePath(args),
                          Prefix(Stringify(args.dataToWrite), fault.written)),
                l1, "ENOSPC")
  ELSE Thrown(f1, l1, WriteError(f1, args, fault))

\* lines 16-28, the body of the try: the filesystem and log it leaves, the path it
\* returns, and the error it throws, if any
TryBody(f, args, fault) ==
  IF StringifyError(args) # NoError THEN Thrown(f, <<>>, StringifyError(args))
  ELSE IF MkdirError(f, args, fault) # NoError THEN Thrown(f, <<>>, MkdirError(f, args, fault))
  ELSE IF MkdirNeeded(f, args)
    THEN WriteAndReturn(Mkdir(f, FolderPath(args)),
                        <<[kind |-> "Directory created", path |-> FolderPath(args)]>>,
                        args, fault)
  ELSE WriteAndReturn(f, <<>>, args, fault)

\* the value of a one-element set
Only(set) == CHOOSE x \in set : TRUE

\* no catch: an error of the body leaves the function as an exception
Uncaught(body) ==
  [fs |-> body.fs, logged |-> body.logged, threw |-> body.error # NoError,
   ok |-> body.error = NoError, path |-> body.path]

\* lines 28-32: the path the body returned, or the catch block: console.error(error),
\* return false
ReturnOrCatch(body) ==
  IF body.error = NoError
    THEN [fs |-> body.fs, logged |-> body.logged, threw |-> FALSE,
          ok |-> TRUE, path |-> body.path]
    ELSE [fs |-> body.fs,
          logged |-> body.logged \o <<[kind |-> body.error, path |-> <<>>]>>,
          threw |-> FALSE, ok |-> FALSE, path |-> <<>>]

\* the body without its try/catch
writeJsonFilesNoCatch(f, args, fault) ==
  Only({Uncaught(body) : body \in {TryBody(f, args, fault)}})

\* lines 9-33 (the body is evaluated once, then handed on)
writeJsonFiles(f, args, fault) ==
  Only({ReturnOrCatch(body) : body \in {TryBody(f, args, fault)}})

(***************************************************************************)
(* The writer called again and again, on any arguments, under any fault    *)
(***************************************************************************)
MaxCalls == 2
PartialWritten == 3

DirO == <<"o">>
DbS == <<"s">>
ColU == <<"u">>
DocA == <<"a">>
DocB == <<"b">>

Payloads == {Array(<<>>), Array(<<DocA>>), Array(<<DocA, DocB>>), Circular}

WriterArgs ==
  [dirPath : {Dot, DirO}, databaseName : {DbS}, fileName : {ColU}, dataToWrite : Payloads]

Faults ==
  {NoFault, [kind |-> "mkdirDenied", written |-> 0], [kind |-> "openDenied", written |-> 0],
   [kind |-> "diskFull", written |-> PartialWritten]}

\* the filesystem before the first call: the output directory missing or there, the
\* database's directory missing or there, or a regular file in its place
WriterFsInits ==
  {[dirs |-> {<<>>}, files |-> {}],
   [dirs |-> {<<>>, <<DirO>>}, files |-> {}],
   [dirs |-> {<<>>, <<DirO>>, <<DirO, DbS>>}, files |-> {}],
   [dirs |-> {<<>>, <<DbS>>}, files |-> {}],
   [dirs |-> {<<>>, <<DirO>>}, files |-> {[path |-> <<DirO, DbS>>, content |-> <<"x">>]}]}

NoArgs == [dirPath |-> Dot, databaseName |-> <<>>, fileName |-> <<>>, dataToWrite |-> Array(<<>>)]

NoCall ==
  [made |-> FALSE, args |-> NoArgs, fault |-> NoFault,
   before |-> [dirs |-> {<<>>}, files |-> {}],
   threw |-> FALSE, ok |-> FALSE, path |-> <<>>, logged |-> <<>>]

\* the record of the most recent call that aimed at path p
LastAt(p) == CHOOSE e \in last : e.path = p

Earlier(p) == IF \E e \in last : e.path = p THEN LastAt(p).earlier ELSE {}

EarlierNow(p) ==
  IF \E e \in last : e.path = p /\ e.ok THEN Earlier(p) \cup {LastAt(p).data} ELSE Earlier(p)

WriteJson ==
  /\ calls < MaxCalls
  /\ \E args \in WriterArgs, fault \in Faults :
       \E r \in {writeJsonFiles(fs, args, fault)}, p \in {FinalFilePath(args)} :
           /\ fs' = r.fs
           /\ call' = [made |-> TRUE, args |-> args, fault |-> fault, before |-> fs,
                       threw |-> r.threw, ok |-> r.ok, path |-> r.path, logged |-> r.logged]
           /\ last' = {e \in last : e.path # p}
                        \cup {[path |-> p, ok |-> r.ok, data |-> args.dataToWrite,
                               earlier |-> EarlierNow(p)]}
  /\ calls' = calls + 1
  /\ UNCHANGED <<run, wr, seen, cyc, sched>>

(***************************************************************************)
(* The writer step by step, beside a reader of the output directory.       *)
(* fs.writeFileSync(path, data) opens the file with flag "w", which        *)
(* truncates it, writes the data in one or more write calls and closes it. *)
(***************************************************************************)
ChunkSize == 4

Absent == [exists |-> FALSE, content |-> <<>>]

FileState(f, p) ==
  IF IsFile(f, p) THEN [exists |-> TRUE, content |-> Content(f, p)] ELSE Absent

WriterIdle ==
  [pc |-> "idle", args |-> NoArgs, data |-> <<>>, path |-> <<>>, written |-> 0, old |-> Absent]

NotRead == [read |-> FALSE, path |-> <<>>, file |-> Absent, old |-> Absent, new |-> <<>>]

Returned(args, fault, before, ok, path, logged) ==
  [made |-> TRUE, args |-> args, fault |-> fault, before |-> before,
   threw |-> FALSE, ok |-> ok, path |-> path, logged |-> logged]

\* the catch block, lines 29-32
Caught(args, fault, before, error, logged) ==
  Returned(args, fault, before, FALSE, <<>>, logged \o <<[kind |-> error, path |-> <<>>]>>)

\* lines 16-24: paths, JSON.stringify, existsSync and mkdirSync
StepBegin ==
  /\ wr.pc = "idle"
  /\ calls < MaxCalls
  /\ \E args \in WriterArgs, fault \in {NoFault, [kind |-> "mkdirDenied", written |-> 0]} :
       LET e1 == StringifyError(args)
           e2 == IF e1 # NoError THEN e1 ELSE MkdirError(fs, args, fault)
           made == MkdirNeeded(fs, args)
           logged == IF made THEN <<[kind |-> "Directory created", path |-> FolderPath(args)]>>
                     ELSE <<>>
       IN  IF e2 # NoError
             THEN /\ call' = Caught(args, fault, fs, e2, <<>>)
                  /\ UNCHANGED <<fs, wr>>
             ELSE /\ fs' = IF made THEN Mkdir(fs, FolderPath(args)) ELSE fs
                  /\ wr' = [pc |-> "open", args |-> args, data |-> Stringify(args.dataToWrite),
                            path |-> FinalFilePath(args), written |-> 0,
                            old |-> FileState(fs, FinalFilePath(args))]
                  /\ call' = [NoCall EXCEPT !.args = args, !.before = fs, !.logged = logged]
  /\ calls' = calls + 1
  /\ UNCHANGED <<run, last, seen, cyc, sched>>

\* line 26, open(path, "w"): the file is created empty or truncated, or the open fails
StepOpen ==
  /\ wr.pc = "open"
  /\ \E fault \in {NoFault, [kind |-> "openDenied", written |-> 0]} :
       LET e == WriteError(fs, wr.args, fault) IN
       IF e # NoError
         THEN /\ call' = Caught(wr.args, fault, call.before, e, call.logged)
              /\ wr' = [wr EXCEPT !.pc = "idle"]
              /\ UNCHANGED fs
         ELSE /\ fs' = WriteFile(fs, wr.path, <<>>)
              /\ wr' = [wr EXCEPT !.pc = IF wr.data = <<>> THEN "close" ELSE "write"]
              /\ UNCHANGED call
  /\ UNCHANGED <<run, last, calls, seen, cyc, sched>>

\* line 26, one write call: the next characters, at most ChunkSize of them
StepWrite ==
  /\ wr.pc = "write"
  /\ LET n == IF Len(wr.data) - wr.written < ChunkSize
                THEN Len(wr.data) - wr.written ELSE ChunkSize
         w == wr.written + n
     IN  /\ fs' = WriteFile(fs, wr.path, SubSeq(wr.data, 1, w))
         /\ wr' = [wr EXCEPT !.written = w,
                             !.pc = IF w = Len(wr.data) THEN "close" ELSE "write"]
  /\ UNCHANGED <<run, call, last, calls, seen, cyc, sched>>

\* line 26, a write call fails (the disk is full): writeFileSync throws, the catch
\* block returns false and the file stays as far as it was written
StepWriteFails ==
  /\ wr.pc = "write"
  /\ call' = Caught(wr.args, [kind |-> "diskFull", written |-> wr.written],
                    call.before, "ENOSPC", call.logged)
  /\ wr' = [wr EXCEPT !.pc = "idle"]
  /\ UNCHANGED <<run, fs, last, calls, seen, cyc, sched>>

\* lines 26-28: the file is closed and the path returned
StepClose ==
  /\ wr.pc = "close"
  /\ call' = Returned(wr.args, NoFault, call.before, TRUE, wr.path, call.logged)
  /\ wr' = [wr EXCEPT !.pc = "idle"]
  /\ UNCHANGED <<run, fs, last, calls, seen, cyc, sched>>

\* another process opens and reads the file the writer last aimed at; it notes, for
\* the comparison, the file as it was before that write and the text being written
ReaderReads ==
  /\ wr.path # <<>>
  /\ seen' = [read |-> TRUE, path |-> wr.path, file |-> FileState(fs, wr.path),
              old |-> wr.old, new |-> wr.data]
  /\ UNCHANGED <<run, fs, call, last, calls, wr, cyc, sched>>

(***************************************************************************)
(* The scope resolver, the sync cycle and the scheduler, from the design   *)
(* document (sections 4.1, 4.4, 4.5); the cycle writes with writeJsonFiles.*)
(***************************************************************************)
DbL == <<"l">>
ColV == <<"v">>

Range(s) == {s[i] : i \in 1..Len(s)}

\* a remote schema: databases in the order the source reports them, each with its
\* collections in order and their documents
RemoteShop ==
  << [name |-> DbS, collections |-> << [name |-> ColU, docs |-> <<DocA>>],
                                     [name |-> ColV, docs |-> <<DocB>>] >>],
     [name |-> DbL, collections |-> << [name |-> NameE, docs |-> <<DocA, DocB>>] >>] >>

RemoteLogsFirst ==
  << [name |-> DbL, collections |-> << [name |-> NameE, docs |-> <<>>],
                                     [name |-> ColU, docs |-> <<DocB>>] >>],
     [name |-> DbS, collections |-> << [name |-> ColU, docs |-> <<DocA>>] >>],
     [name |-> DirD, collections |-> <<>>] >>

Remotes == {RemoteShop, RemoteLogsFirst}

CollectionPairs(db) ==
  {<<db.name, db.collections[j].name>> : j \in 1..Len(db.collections)}

SchemaPairs(remote) == UNION {CollectionPairs(remote[i]) : i \in 1..Len(remote)}

DocsOf(remote, t) ==
  LET db == CHOOSE i \in 1..Len(remote) : remote[i].name = t[1]
      c  == CHOOSE j \in 1..Len(remote[db].collections) :
              remote[db].collections[j].name = t[2]
  IN  remote[db].collections[c].docs

\* a blacklist entry "db/col", split into (db, col)
BlacklistPair(entry) ==
  LET i == IndexOf(entry, "/") IN
  IF i = 0 THEN <<entry, <<>>>>
  ELSE <<SubSeq(entry, 1, i - 1), SubSeq(entry, i + 1, Len(entry))>>

BlacklistPairs(blacklist) == {BlacklistPair(blacklist[i]) : i \in 1..Len(blacklist)}

RECURSIVE EmitCollections(_, _, _)
EmitCollections(db, collections, blacklist) ==
  IF collections = <<>> THEN <<>>
  ELSE (IF <<db, Head(collections).name>> \in BlacklistPairs(blacklist)
          THEN <<>> ELSE << <<db, Head(collections).name>> >>)
       \o EmitCollections(db, Tail(collections), blacklist)

\* a resolver that drops a whole database once one of its collections is blacklisted
RECURSIVE resolveDroppingDatabases(_, _, _)
resolveDroppingDatabases(whitelist, blacklist, databases) ==
  IF databases = <<>> THEN <<>>
  ELSE (IF Head(databases).name \in Range(whitelist)
             /\ \A b \in BlacklistPairs(blacklist) : b[1] # Head(databases).name
          THEN EmitCollections(Head(databases).name, Head(databases).collections, <<>>)
          ELSE <<>>)
       \o resolveDroppingDatabases(whitelist, blacklist, Tail(databases))

\* section 4.1: resolve(databaseWhitelist, collectionBlacklist, availableDatabases)
RECURSIVE resolve(_, _, _)
resolve(whitelist, blacklist, databases) ==
  IF databases = <<>> THEN <<>>
  ELSE (IF Head(databases).name \in Range(whitelist)
          THEN EmitCollections(Head(databases).name, Head(databases).collections, blacklist)
          ELSE <<>>)
       \o resolve(whitelist, blacklist, Tail(databases))

IntervalTicks == 2

\* the configuration: the lists as the wizard stores them (lines 162-184), or an
\* empty whitelist
Whitelists == {ParseList(a) : a \in DbsInputs \ Throws} \cup {<<>>}
Blacklists == {ParseList(a) : a \in ExcludeInputs \ Throws}
Configs == [dbs : Whitelists, excludeCollections : Blacklists, outDir : {Dot, DirO}]

NoReport == [totalTargets |-> 0, successCount |-> 0, failureCount |-> 0,
             connectionFailed |-> FALSE]

NoCycle(config, remote) ==
  [pc |-> "idle", config |-> config, remote |-> remote, targets |-> <<>>, next |-> 1,
   outcomes |-> <<>>, extracted |-> <<>>, report |-> NoReport]

SchedStopped ==
  [state |-> "Stopped", phase |-> "none", timer |-> 0, elapsed |-> 0, active |-> 0,
   lastOutcome |-> "none"]

\* runCycle is invoked: one more cycle is in progress
InvokeRunCycle ==
  /\ cyc' = [NoCycle(cyc.config, cyc.remote) EXCEPT !.pc = "connect"]
  /\ sched' = [sched EXCEPT !.state = "Running", !.phase = "cycle", !.timer = 0,
                            !.elapsed = 0, !.active = @ + 1]

\* section 4.5: Stopped -> Running at process start, runCycle invoked immediately
SchedStart ==
  /\ sched.state = "Stopped"
  /\ InvokeRunCycle
  /\ UNCHANGED <<run, fs, call, last, calls, wr, seen>>

\* section 4.4 steps 1-2: open the connection; a failure ends the whole cycle
CycleConnect ==
  /\ cyc.pc = "connect"
  /\ \E connected \in BOOLEAN :
       cyc' = IF connected THEN [cyc EXCEPT !.pc = "resolve"]
              ELSE [cyc EXCEPT !.pc = "reported", !.report.connectionFailed = TRUE]
  /\ UNCHANGED <<run, fs, call, last, calls, wr, seen, sched>>

\* section 4.4 step 3
CycleResolve ==
  /\ cyc.pc = "resolve"
  /\ cyc' = [cyc EXCEPT !.pc = "targets",
                        !.targets = resolve(cyc.config.dbs, cyc.config.excludeCollections,
                                            cyc.remote)]
  /\ UNCHANGED <<run, fs, call, last, calls, wr, seen, sched>>

\* section 4.4 step 4, one target: extract, then write with writeJsonFiles; a failure
\* of either is that target's outcome. An exception out of the writer would leave
\* runCycle.
CycleTarget ==
  /\ cyc.pc = "targets"
  /\ cyc.next <= Len(cyc.targets)
  /\ \E extractedOk \in BOOLEAN, fault \in Faults :
       \E t \in {cyc.targets[cyc.next]} :
       \E r \in {writeJsonFiles(fs, [dirPath |-> cyc.config.outDir, databaseName |-> t[1],
                                     fileName |-> t[2],
                                     dataToWrite |-> Array(DocsOf(cyc.remote, t))], fault)} :
           IF ~extractedOk
             THEN /\ cyc' = [cyc EXCEPT !.next = @ + 1, !.extracted = Append(@, t),
                                        !.outcomes = Append(@, [target |-> t, ok |-> FALSE,
                                                                path |-> <<>>])]
                  /\ UNCHANGED fs
             ELSE /\ fs' = r.fs
                  /\ cyc' = IF r.threw THEN [cyc EXCEPT !.pc = "aborted"]
                            ELSE [cyc EXCEPT !.next = @ + 1, !.extracted = Append(@, t),
                                             !.outcomes = Append(@, [target |-> t, ok |-> r.ok,
                                                                     path |-> r.path])]
  /\ UNCHANGED <<run, call, last, calls, wr, seen, sched>>

Successes(outcomes) == {i \in 1..Len(outcomes) : outcomes[i].ok}

\* section 4.4 steps 5-6: close the connection, build and log the report
CycleReport ==
  /\ cyc.pc = "targets"
  /\ cyc.next > Len(cyc.targets)
  /\ cyc' = [cyc EXCEPT !.pc = "reported",
                        !.report = [totalTargets |-> Len(cyc.targets),
                                    successCount |-> Cardinality(Successes(cyc.outcomes)),
                                    failureCount |-> Len(cyc.outcomes)
                                                       - Cardinality(Successes(cyc.outcomes)),
                                    connectionFailed |-> FALSE]]
  /\ UNCHANGED <<run, fs, call, last, calls, wr, seen, sched>>

CycleOutcome(report) ==
  IF report.connectionFailed THEN "connectionFailure"
  ELSE IF report.failureCount > 0 THEN "partialFailure" ELSE "success"

\* section 4.5: runCycle has completed; the wait for the next tick begins, and is
\* over at once when the cycle took longer than the interval
SchedCycleDone ==
  /\ cyc.pc = "reported"
  /\ cyc' = [cyc EXCEPT !.pc = "idle"]
  /\ sched' = [sched EXCEPT !.phase = "waiting", !.active = @ - 1,
                            !.timer = IF sched.elapsed > IntervalTicks THEN IntervalTicks ELSE 0,
                            !.lastOutcome = CycleOutcome(cyc.report)]
  /\ UNCHANGED <<run, fs, call, last, calls, wr, seen>>

\* time passes, while a cycle runs or while the scheduler waits
Tick ==
  /\ \/ /\ sched.phase = "cycle"
        /\ sched.elapsed <= IntervalTicks
        /\ sched' = [sched EXCEPT !.elapsed = @ + 1]
     \/ /\ sched.phase = "waiting"
        /\ sched.timer < IntervalTicks
        /\ sched' = [sched EXCEPT !.timer = @ + 1]
  /\ UNCHANGED <<run, fs, call, last, calls, wr, seen, cyc>>

\* a timer that fires every interval, whether or not the last cycle has completed
SchedFireEveryInterval ==
  /\ sched.active < 2
  /\ \/ sched.phase = "waiting" /\ sched.timer >= IntervalTicks
     \/ sched.phase = "cycle" /\ sched.elapsed >= IntervalTicks
  /\ InvokeRunCycle
  /\ UNCHANGED <<run, fs, call, last, calls, wr, seen>>

\* section 4.5: the wait is over, runCycle is invoked again
SchedFire ==
  /\ sched.phase = "waiting"
  /\ sched.timer >= IntervalTicks
  /\ InvokeRunCycle
  /\ UNCHANGED <<run, fs, call, last, calls, wr, seen>>

(***************************************************************************)
(* Specifications                                                          *)
(***************************************************************************)
WriterUnused == fs = [dirs |-> {<<>>}, files |-> {}] /\ call = NoCall /\ last = {} /\ calls = 0
StepsUnused == wr = WriterIdle /\ seen = NotRead
EngineUnused == cyc = NoCycle([dbs |-> <<>>, excludeCollections |-> <<>>, outDir |-> Dot], <<>>)
                  /\ sched = SchedStopped

\* the wizard
Init == WizardInit /\ WriterUnused /\ StepsUnused /\ EngineUnused
Next == WizardNext
Spec == Init /\ [][Next]_vars

\* the writer, call by call
WriterInit ==
  /\ WizardIdle /\ StepsUnused /\ EngineUnused
  /\ fs \in WriterFsInits /\ call = NoCall /\ last = {} /\ calls = 0
WriterNext == WriteJson
SpecWriter == WriterInit /\ [][WriterNext]_vars

\* the writer, step by step, and a reader
StepsInit ==
  /\ WizardIdle /\ EngineUnused
  /\ fs \in WriterFsInits /\ call = NoCall /\ last = {} /\ calls = 0
  /\ wr = WriterIdle /\ seen = NotRead
StepsNext ==
  \/ StepBegin
  \/ StepOpen
  \/ StepWrite
  \/ StepWriteFails
  \/ StepClose
  \/ ReaderReads
SpecSteps == StepsInit /\ [][StepsNext]_vars

\* the engine: scheduler and cycles
EngineFsInits == {[dirs |-> {<<>>}, files |-> {}], [dirs |-> {<<>>, <<DirO>>}, files |-> {}]}
EngineInit ==
  /\ WizardIdle /\ StepsUnused
  /\ fs \in EngineFsInits /\ call = NoCall /\ last = {} /\ calls = 0
  /\ \E config \in Configs, remote \in Remotes : cyc = NoCycle(config, remote)
  /\ sched = SchedStopped
EngineNext ==
  \/ SchedStart
  \/ CycleConnect
  \/ CycleResolve
  \/ CycleTarget
  \/ CycleReport
  \/ SchedCycleDone
  \/ Tick
  \/ SchedFire
SpecEngine == EngineInit /\ [][EngineNext]_vars

\* the scheduler over one configuration (whitelist s and l, blacklist s/u, the
\* output directory in place); the event loop runs every timer and continuation
\* that is due
SchedInit ==
  /\ WizardIdle /\ StepsUnused
  /\ fs = [dirs |-> {<<>>}, files |-> {}] /\ call = NoCall /\ last = {} /\ calls = 0
  /\ cyc = NoCycle([dbs |-> ParseList(<<"s", ",", " ", "l">>),
                    excludeCollections |-> ParseList(<<"s", "/", "u">>),
                    outDir |-> Dot], RemoteShop)
  /\ sched = SchedStopped
SpecSched == SchedInit /\ [][EngineNext]_vars /\ WF_vars(EngineNext)

(***************************************************************************)
(* The wizard's claims                                                     *)
(***************************************************************************)
Asked(a) == a # NotAsked

\* the interval question was answered and the wizard went on to the next one
IntervalAccepted(st) == st.pc = "databaseType" \/ Asked(st.typed.databaseType)

\* the number a typed interval stands for
TypedInterval(st) == NumberOf(Input(st.typed.interval, DefaultInterval))

IntegerAtLeast(n, k) == IsInteger(n) /\ ~n.neg /\ n.int >= k

\* C1: an interval is accepted if and only if it is an integer >= 5000; a rejected
\* one ends the process with a non-zero status; so the interval in the returned
\* configuration is an integer >= 5000.
C1_IntervalAcceptedIffIntegerAtLeast5000 ==
  \A r \in Runs :
    LET st == run[r] IN
    (Asked(st.typed.interval) /\ ~IsThrow(st.typed.interval)) =>
      /\ IntervalAccepted(st) <=> IntegerAtLeast(TypedInterval(st), MinInterval)
      /\ ~IntervalAccepted(st) => (st.pc = "exit" /\ st.exitCode # 0)
      /\ IntervalAccepted(st) => IntegerAtLeast(st.rv.interval, MinInterval)

\* an answer that fails its validation, or a prompt that threw
InvalidAnswers(typed) ==
  \/ \E q \in DOMAIN typed : IsThrow(typed[q])
  \/ typed.projectName = <<>>
  \/ Asked(typed.dirPath) /\ Input(typed.dirPath, Dot) = <<>>
  \/ Asked(typed.mainFile) /\ ~EndsWith(Input(typed.mainFile, IndexJs), DotJs)
  \/ Asked(typed.interval)
       /\ LET n == NumberOf(Input(typed.interval, DefaultInterval))
          IN  n.nan \/ n.neg \/ n.int < MinInterval
  \/ typed.databaseSecret = <<>>
  \/ Asked(typed.outDir) /\ Input(typed.outDir, Dot) = <<>>

AllAnswered(typed) == \A q \in DOMAIN typed : Asked(typed[q])

\* C2: a failed validation or a throwing prompt ends the process with a non-zero
\* status before createFiles runs: no directory is created, no file is written.
\* Files are written only in runs where every answer was given and valid.
C2_NoFilesUnlessEveryAnswerValid ==
  \A r \in Runs :
    LET st == run[r] IN
    /\ InvalidAnswers(st.typed) => (st.pc = "exit" /\ st.exitCode # 0 /\ st.wfs = st.disk0)
    /\ st.wfs # st.disk0 => (AllAnswered(st.typed) /\ ~InvalidAnswers(st.typed))
    /\ st.pc \in {"createFiles", "done", "crashed"} =>
         (AllAnswered(st.typed) /\ ~InvalidAnswers(st.typed))

\* one run stopped at an empty secret with nothing written, the other wrote its files
C2_Witness ==
  /\ run[1].typed.databaseSecret = <<>> /\ run[1].pc = "exit" /\ run[1].wfs = run[1].disk0
  /\ run[2].pc = "done" /\ run[2].wfs.files # {}

SecretEntered(st) ==
  Asked(st.typed.databaseSecret) /\ ~IsThrow(st.typed.databaseSecret)
    /\ st.typed.databaseSecret # <<>>

\* two file contents agree in every member but database.secretKey
SameButSecretKey(c1, c2) ==
  /\ Len(c1) = Len(c2)
  /\ \A i \in 1..Len(c1) :
       c1[i][1] = c2[i][1] /\ (c1[i][1] # "database.secretKey" => c1[i] = c2[i])

ExpectedFolder(args) == PathOf(args.dirPath) \o <<args.databaseName>>
ExpectedFile(args) == ExpectedFolder(args) \o <<args.fileName \o DotJson>>

Prefixes(p) == {SubSeq(p, 1, n) : n \in 0..Len(p)}

\* nothing but missing directories stands between the filesystem and the write: no
\* regular file sits where a directory of the path has to be, the payload serializes,
\* and the environment refuses nothing
OnlyDirectoriesMissing(c) ==
  /\ c.fault = NoFault
  /\ ~c.args.dataToWrite.circular
  /\ \A q \in Prefixes(ExpectedFolder(c.args)) : ~IsFile(c.before, q)
  /\ ~IsDir(c.before, ExpectedFile(c.args))

\* C3: whatever directories exist before the call (dirPath itself may be missing),
\* the call leaves dirPath/databaseName a directory, the payload in
\* dirPath/databaseName/fileName.json, and returns that path.
C3_DirectoryEnsuredAndPathReturned ==
  (call.made /\ OnlyDirectoriesMissing(call)) =>
    /\ call.ok /\ call.path = ExpectedFile(call.args)
    /\ IsDir(fs, ExpectedFolder(call.args))
    /\ FileState(fs, ExpectedFile(call.args))
         = [exists |-> TRUE, content |-> Stringify(call.args.dataToWrite)]

LastLogged(c) == c.logged[Len(c.logged)]

\* C5: no failure leaves writeJsonFiles as an exception: a failed call logs the error
\* and returns false, and a path is returned only when the file holds the payload.
C5_FailureReturnedNotThrown ==
  call.made =>
    /\ ~call.threw
    /\ call.ok =>
         /\ call.path = ExpectedFile(call.args)
         /\ FileState(fs, call.path)
              = [exists |-> TRUE, content |-> Stringify(call.args.dataToWrite)]
    /\ ~call.ok =>
         /\ call.path = <<>>
         /\ call.logged # <<>>
         /\ LastLogged(call).kind \in {"TypeError", "ENOENT", "EACCES", "ENOTDIR", "EISDIR", "ENOSPC"}
    /\ (call.args.dataToWrite.circular \/ call.fault.kind \in {"openDenied", "diskFull"})
         => ~call.ok

\* a write that failed part-way came back as false, with the error logged
C5_Witness ==
  /\ call.made /\ ~call.ok /\ ~call.threw
  /\ call.fault.kind = "diskFull" /\ LastLogged(call).kind = "ENOSPC"

\* C6: where the most recent call to a file succeeded, the file holds exactly that
\* call's payload, whatever was written there before.
C6_LastWriteWins ==
  \A e \in last :
    e.ok => FileState(fs, e.path) = [exists |-> TRUE, content |-> Stringify(e.data)]

\* a file written successfully twice over, the second time with another payload
C6_Witness ==
  \E e \in last : e.ok /\ \E d \in e.earlier : d # e.data /\ d.docs # <<>>

\* C4: whenever another process reads the file, during or after a write, also one
\* that failed part-way, it finds the file as it was before the write (or no file,
\* if there was none) or the complete new text.
C4_ReaderSeesOldOrNew ==
  seen.read =>
    \/ seen.file = seen.old
    \/ seen.file = [exists |-> TRUE, content |-> seen.new]

(***************************************************************************)
(* The engine's claims                                                     *)
(***************************************************************************)
TargetFile(config, t) == PathOf(config.outDir) \o <<t[1], t[2] \o DotJson>>

Failures(outcomes) == {i \in 1..Len(outcomes) : ~outcomes[i].ok}

CycleReported == cyc.pc = "reported" /\ ~cyc.report.connectionFailed

\* C8: a cycle is never left early by a target's failure; when it reports, every
\* target was extracted once, every target reported a success has its documents in
\* its own file, and with exactly one failed target among N the report counts N-1
\* successes and 1 failure.
C8_PartialFailureIsolation ==
  /\ cyc.pc # "aborted"
  /\ CycleReported =>
       /\ cyc.extracted = cyc.targets
       /\ Len(cyc.outcomes) = Len(cyc.targets)
       /\ cyc.report.totalTargets = Len(cyc.targets)
       /\ \A i \in 1..Len(cyc.outcomes) :
            /\ cyc.outcomes[i].target = cyc.targets[i]
            /\ cyc.outcomes[i].ok =>
                 /\ cyc.outcomes[i].path = TargetFile(cyc.config, cyc.targets[i])
                 /\ FileState(fs, TargetFile(cyc.config, cyc.targets[i]))
                      = [exists |-> TRUE,
                         content |-> Stringify(Array(DocsOf(cyc.remote, cyc.targets[i])))]
       /\ Cardinality(Failures(cyc.outcomes)) = 1 =>
            /\ cyc.report.successCount = Len(cyc.targets) - 1
            /\ cyc.report.failureCount = 1

\* a reported cycle over three targets, one of them failed
C8_Witness ==
  /\ CycleReported
  /\ Len(cyc.targets) = 3
  /\ cyc.report.failureCount = 1 /\ cyc.report.successCount = 2
  /\ ~cyc.outcomes[2].ok

Resolved == cyc.pc = "targets" \/ CycleReported

InWhitelist(blacklist, whitelist) ==
  SelectSeq(blacklist, LAMBDA b : BlacklistPair(b)[1] \in Range(whitelist))

\* C10: a collection of the remote schema is a target if and only if its database is
\* whitelisted and the pair is not blacklisted; no target comes twice; an empty
\* whitelist gives no target; blacklist entries of databases outside the whitelist
\* change nothing.
C10_ScopeResolution ==
  Resolved =>
    LET whitelist == cyc.config.dbs
        blacklist == cyc.config.excludeCollections
        T == cyc.targets
    IN  /\ Range(T) \subseteq SchemaPairs(cyc.remote)
        /\ \A t \in SchemaPairs(cyc.remote) :
             t \in Range(T) <=> (t[1] \in Range(whitelist) /\ t \notin BlacklistPairs(blacklist))
        /\ \A i, j \in 1..Len(T) : T[i] = T[j] => i = j
        /\ whitelist = <<>> => T = <<>>
        /\ T = resolve(whitelist, InWhitelist(blacklist, whitelist), cyc.remote)

\* the whitelist names one database, the blacklist one of its collections and one of
\* a database outside the whitelist; the other collection is the only target
C10_Witness ==
  /\ Resolved
  /\ cyc.config.dbs = <<DbS>>
  /\ BlacklistPairs(cyc.config.excludeCollections) = {<<DbS, ColU>>, <<DbL, NameE>>}
  /\ cyc.targets = << <<DbS, ColV>> >>

\* C9: at most one cycle is in progress; a cycle is started only when none is in
\* progress, the one before having reported; and a cycle is started again and again,
\* whatever the outcome of the one before.
C9_OneCycleAtATime ==
  /\ [](sched.active <= 1)
  /\ [][(cyc'.pc = "connect" /\ cyc.pc # "connect") => (cyc.pc = "idle" /\ sched.active = 0)]_vars
  /\ []<>(cyc.pc = "connect")
  /\ [](cyc.pc = "reported" => <>(cyc.pc = "connect"))

\* a cycle that has run longer than the interval, started after a connection failure
C9_Witness ==
  /\ sched.lastOutcome = "connectionFailure"
  /\ cyc.pc = "targets"
  /\ sched.elapsed > IntervalTicks
  /\ sched.active = 1

====
